---- MODULE Spec2Model ----
(***************************************************************************)
(* ses-smtpd-relay: the SMTP session callbacks of main.go (NewSession,     *)
(* Mail, Rcpt, Data, Reset), the Prometheus counters they increment and    *)
(* the SendRawEmail requests they build.                                   *)
(*                                                                         *)
(* Each connection owns one Session.  The protocol engine calls the        *)
(* callbacks of one connection one after the other; different connections  *)
(* interleave.  Data blocks in SendRawEmail, so it is modelled in the      *)
(* steps at which another connection can run: up to the SES call, the      *)
(* return of the SES call, and the second counter increment of the error   *)
(* path.                                                                   *)
(***************************************************************************)
EXTENDS Integers, Sequences, FiniteSets, TLC

\* ---------------------------------------------------------------- bounds

\* Longest recipient list a connection builds.
MaxRcpts == 2

\* Number of Data calls started over a run (caps the counters).
MaxData == 2

\* Body lengths tried: 0..MaxSmall and SesSizeLimit..SesSizeLimit+MaxOver.
MaxSmall == 0
MaxOver == 1

\* ------------------------------------------------------- program constants

SesSizeLimit == 40000000

\* The connections of the run.
Conns == {"c1", "c2"}

\* Envelope addresses the clients use.
Addrs == {"a@example.com", "b@example.com"}

\* Body bytes: a body is a run of one byte value.
Fills == {"x", "y"}

\* configuration-set-name flag values: "" means the flag was not given.
ConfigFlags == {"", "campaign-1"}

\* Errors SendRawEmail can return.
SesErrs == {"MessageRejected", "Throttling"}

Min(a, b) == IF a < b THEN a ELSE b

\* ------------------------------------------------------------ Go values

\* *string: nil or a pointer to a string.
NilStr == [nil |-> TRUE, val |-> ""]
StrPtr(s) == [nil |-> FALSE, val |-> s]

\* []byte: nil, or a slice of len bytes, each of value fill.
NilBytes == [nil |-> TRUE, len |-> 0, fill |-> ""]
Bytes(n, f) == [nil |-> FALSE, len |-> n, fill |-> IF n = 0 THEN "" ELSE f]

\* error: nil or an *smtp.SMTPError.
NoError == [Code |-> 0, EnhancedCode |-> <<>>, Message |-> ""]

ErrNoRecipients ==
    [Code |-> 554, EnhancedCode |-> <<5, 5, 1>>, Message |-> "Error: no valid recipients"]

ErrRead ==
    [Code |-> 451, EnhancedCode |-> <<4, 5, 1>>, Message |-> "Temporary server error reading message"]

ErrSize ==
    [Code |-> 554, EnhancedCode |-> <<5, 5, 1>>, Message |-> "Error: maximum message size exceeded"]

\* The SES failure reported as permanent.
ErrSesPermanent ==
    [Code |-> 554, EnhancedCode |-> <<5, 5, 1>>, Message |-> "Temporary server error. Please try again later"]

ErrSes ==
    [Code |-> 451, EnhancedCode |-> <<4, 5, 1>>, Message |-> "Temporary server error. Please try again later"]

\* ------------------------------------------------------------ io.Reader

\* A body reader delivers len bytes of value fill and then ends:
\*   "EOF"      the Read after the last byte returns io.EOF;
\*   "ErrAfter" the Read after the last byte returns an error;
\*   "ErrWith"  the Read that delivers the last byte returns the error
\*              with it (for len = 0: the first Read returns the error).
Ends == {"EOF", "ErrAfter", "ErrWith"}

BodyLens == (0 .. MaxSmall) \cup (SesSizeLimit .. (SesSizeLimit + MaxOver))

Readers ==
    { [len |-> n, fill |-> IF n = 0 THEN "" ELSE f, end |-> e] :
        n \in BodyLens, f \in Fills, e \in Ends }

NoReader == [len |-> 0, fill |-> "", end |-> "EOF"]

\* io.LimitReader(r, n): stops with EOF after n bytes, without calling r
\* again; an error r returns together with the n-th byte is passed on.
LimitReader(r, n) ==
    [len |-> Min(r.len, n),
     fill |-> r.fill,
     end |-> IF r.len < n THEN r.end
             ELSE IF r.len = n /\ r.end = "ErrWith" THEN "ErrWith"
             ELSE "EOF"]

\* io.ReadAll with the reader's error dropped.
ReadAllNoErr(r) ==
    [data |-> Bytes(r.len, r.fill), err |-> FALSE, nread |-> r.len]

\* io.ReadAll(r): the bytes read (a non-nil slice), the error unless it is
\* io.EOF, and the number of bytes taken from r.
ReadAll(r) ==
    [data |-> Bytes(r.len, r.fill), err |-> r.end # "EOF", nread |-> r.len]

\* The ceiling without the extra byte.
ReadCeilingExact == SesSizeLimit

\* The ceiling of the read in Data.
ReadCeiling == SesSizeLimit + 1

\* The size check one byte late.
SizeExceededLate(data) == data.len > SesSizeLimit + 1

\* len(data) > SesSizeLimit
SizeExceeded(data) == data.len > SesSizeLimit

\* ------------------------------------------------------------- the state

VARIABLES
    proc,        \* the process: main's position, its flags, the signal context,
                 \*      the exit status and the SMTP listener
    backend,     \* Backend: [configSetName], shared by every session
    session,     \* c -> Session: [from, recipients, data]
    pc,          \* c -> "closed" (no session yet), "idle" (between callbacks),
                 \*      "send" (Data blocked in SendRawEmail),
                 \*      "sesErr" (Data between emailError.Inc and sesError.Inc)
    inflight,    \* c -> the SendRawEmailInput of the SES call in progress, or <<>>
    emailSent,   \* smtpd_email_send_success_total
    emailError,  \* smtpd_email_send_fail_total, by "type" label
    sesError,    \* smtpd_ses_error_total
    call,        \* c -> observation of the connection's current or last callback
    mailLog,     \* c -> the sender of the last Mail since NewSession or Reset
    rcptLog,     \* c -> the addresses of the Rcpt calls since NewSession or Reset
    okReturns    \* c -> the number of Data calls of c that returned nil

vars ==
    <<proc, backend, session, pc, inflight, emailSent, emailError, sesError, call,
      mailLog, rcptLog, okReturns>>

\* The "type" labels of emailError.
Labels == {"no valid recipients", "read error", "minimum message size exceed", "ses error"}

\* Every counter: the labels of emailError, emailSent and sesError.
CounterNames == Labels \cup {"emailSent", "sesError"}

\* &Session{backend: b, conn: c}: the other fields hold their zero values.
FreshSession == [from |-> "", recipients |-> <<>>, data |-> NilBytes]

ZeroIncs == [k \in CounterNames |-> 0]

NoCall ==
    [op |-> "none", r |-> NoReader, pre |-> FreshSession, ret |-> NoError,
     incs |-> ZeroIncs, sends |-> 0, nread |-> 0, touched |-> FALSE, sendErr |-> ""]

\* The value of counter k, given the three counters.
Ctr(sent, failed, ses, k) ==
    IF k = "emailSent" THEN sent ELSE IF k = "sesError" THEN ses ELSE failed[k]

\* The increments a step makes (read off the counters themselves), added
\* to the tally incs of the Data call the step belongs to.
Tally(incs) ==
    [k \in CounterNames |->
        incs[k] + Ctr(emailSent', emailError', sesError', k)
                        - Ctr(emailSent, emailError, sesError, k)]

\* Data calls started so far: every one has incremented emailSent or one
\* label of emailError, or is still in SendRawEmail.
Started ==
    emailSent
    + emailError["no valid recipients"] + emailError["read error"]
    + emailError["minimum message size exceed"] + emailError["ses error"]
    + Cardinality({c \in Conns : pc[c] = "send"})

\* The flag's address taken whether or not it is empty.
ConfigSetPtrAlways(flag) == StrPtr(flag)

\* main: configSetPtr is nil unless the flag is non-empty.
ConfigSetPtr(flag) == IF flag # "" THEN StrPtr(flag) ELSE NilStr

\* The exit status of a process that has not exited.
Running == -1

\* The command line: -version, -configuration-set-name, and whether the
\* arguments are an empty first one followed by more (the usage error).
Flags == [version : BOOLEAN, configSet : ConfigFlags, usage : BOOLEAN]

\* main at its entry, after signal.NotifyContext and flag.Parse.
Started0(fl) ==
    [pc |-> "start", flags |-> fl, signalled |-> FALSE, exit |-> Running,
     listener |-> "none", creds |-> "none", check |-> "none"]

\* main waiting in its select with the listener open: the process serving.
Serving(f) ==
    [pc |-> "select",
     flags |-> [version |-> FALSE, configSet |-> f, usage |-> FALSE],
     signalled |-> FALSE, exit |-> Running, listener |-> "open",
     creds |-> "ok", check |-> IF f # "" THEN "ok" ELSE "none"]

\* The process has not exited: its goroutines run.
Alive == proc.exit = Running

\* The SMTP server accepts connections.
Accepting == Alive /\ proc.listener = "open"

\* The sessions, counters and observations of a process that has served
\* no connection yet.
NoTraffic ==
    /\ session = [c \in Conns |-> FreshSession]
    /\ pc = [c \in Conns |-> "closed"]
    /\ inflight = [c \in Conns |-> <<>>]
    /\ emailSent = 0
    /\ emailError = [l \in Labels |-> 0]
    /\ sesError = 0
    /\ call = [c \in Conns |-> NoCall]
    /\ mailLog = [c \in Conns |-> ""]
    /\ rcptLog = [c \in Conns |-> <<>>]
    /\ okReturns = [c \in Conns |-> 0]

\* The process serving, before its first connection.
Init ==
    /\ \E f \in ConfigFlags :
           /\ proc = Serving(f)
           /\ backend = [configSetName |-> ConfigSetPtr(f)]
    /\ okReturns = [c \in Conns |-> 0]
    /\ session = [c \in Conns |-> FreshSession]
    /\ pc = [c \in Conns |-> "closed"]
    /\ inflight = [c \in Conns |-> <<>>]
    /\ emailSent = 0
    /\ emailError = [l \in Labels |-> 0]
    /\ sesError = 0
    /\ call = [c \in Conns |-> NoCall]
    /\ mailLog = [c \in Conns |-> ""]
    /\ rcptLog = [c \in Conns |-> <<>>]

\* ------------------------------------------------------------- callbacks

\* Backend.NewSession
NewSession(c) ==
    /\ Accepting
    /\ pc[c] = "closed"
    /\ pc' = [pc EXCEPT ![c] = "idle"]
    /\ session' = [session EXCEPT ![c] = FreshSession]
    /\ call' = [call EXCEPT ![c] = [NoCall EXCEPT !.op = "NewSession"]]
    /\ mailLog' = [mailLog EXCEPT ![c] = ""]
    /\ rcptLog' = [rcptLog EXCEPT ![c] = <<>>]
    /\ UNCHANGED <<proc, okReturns, backend, inflight, emailSent, emailError, sesError>>

\* The sender kept once it is set.
SetFromOnce(s, from) == IF s.from = "" THEN [s EXCEPT !.from = from] ELSE s

\* s.from = from
SetFrom(s, from) == [s EXCEPT !.from = from]

\* Session.Mail
Mail(c, from) ==
    /\ Alive
    /\ pc[c] = "idle"
    /\ session' = [session EXCEPT ![c] = SetFrom(session[c], from)]
    /\ call' = [call EXCEPT ![c] = [NoCall EXCEPT !.op = "Mail"]]
    /\ mailLog' = [mailLog EXCEPT ![c] = from]
    /\ UNCHANGED <<proc, okReturns, backend, pc, inflight, emailSent, emailError, sesError, rcptLog>>

\* The new recipient put in front.
PrependRcpt(s, to) == [s EXCEPT !.recipients = <<to>> \o s.recipients]

\* s.recipients = append(s.recipients, to)
AppendRcpt(s, to) == [s EXCEPT !.recipients = Append(s.recipients, to)]

\* Rcpt refused while no sender is recorded.
RcptAfterMail(c, to) ==
    /\ Alive
    /\ pc[c] = "idle"
    /\ Len(session[c].recipients) < MaxRcpts
    /\ UNCHANGED <<proc, okReturns, backend, pc, inflight, emailSent, emailError, sesError, mailLog>>
    /\ IF session[c].from = "" THEN
           /\ call' = [call EXCEPT ![c] =
                  [NoCall EXCEPT !.op = "Rcpt",
                                 !.ret = [Code |-> 503, EnhancedCode |-> <<5, 5, 1>>,
                                          Message |-> "Error: need MAIL command"]]]
           /\ UNCHANGED <<session, rcptLog>>
       ELSE
           /\ session' = [session EXCEPT ![c] = AppendRcpt(session[c], to)]
           /\ call' = [call EXCEPT ![c] = [NoCall EXCEPT !.op = "Rcpt"]]
           /\ rcptLog' = [rcptLog EXCEPT ![c] = Append(rcptLog[c], to)]

\* Session.Rcpt
Rcpt(c, to) ==
    /\ Alive
    /\ pc[c] = "idle"
    /\ Len(session[c].recipients) < MaxRcpts
    /\ session' = [session EXCEPT ![c] = AppendRcpt(session[c], to)]
    /\ call' = [call EXCEPT ![c] = [NoCall EXCEPT !.op = "Rcpt"]]
    /\ rcptLog' = [rcptLog EXCEPT ![c] = Append(rcptLog[c], to)]
    /\ UNCHANGED <<proc, okReturns, backend, pc, inflight, emailSent, emailError, sesError, mailLog>>

\* Reset that forgets the recipients.
ResetSessionPartial(s) == [s EXCEPT !.from = "", !.data = NilBytes]

\* s.from = "", s.recipients = nil, s.data = nil
ResetSession(s) == [s EXCEPT !.from = "", !.recipients = <<>>, !.data = NilBytes]

\* Session.Reset
Reset(c) ==
    /\ Alive
    /\ pc[c] = "idle"
    /\ session' = [session EXCEPT ![c] = ResetSession(session[c])]
    /\ call' = [call EXCEPT ![c] = [NoCall EXCEPT !.op = "Reset"]]
    /\ mailLog' = [mailLog EXCEPT ![c] = ""]
    /\ rcptLog' = [rcptLog EXCEPT ![c] = <<>>]
    /\ UNCHANGED <<proc, okReturns, backend, pc, inflight, emailSent, emailError, sesError>>

\* The recipient check left out.
NoRecipientsUnchecked(s) == FALSE

\* len(s.recipients) == 0
NoRecipients(s) == Len(s.recipients) = 0

\* The body not kept on the session.
StoreDataNot(s, data) == s

\* s.data = data
StoreData(s, data) == [s EXCEPT !.data = data]

\* &ses.SendRawEmailInput{...}
SendRawEmailInput(b, s) ==
    [ConfigurationSetName |-> b.configSetName,
     Source |-> s.from,
     Destinations |-> s.recipients,
     RawMessage |-> s.data]

\* Every failure counted under one label.
IncLabelFixed(failed, l) == [failed EXCEPT !["ses error"] = @ + 1]

\* emailError.With(prometheus.Labels{"type": l}).Inc()
IncLabel(failed, l) == [failed EXCEPT ![l] = @ + 1]

\* Data with s.data assigned as soon as the body is read, before the size
\* check.
DataStoresEarly(c, r) ==
    /\ Alive
    /\ pc[c] = "idle"
    /\ Started < MaxData
    /\ UNCHANGED <<proc, okReturns, backend, emailSent, sesError, mailLog, rcptLog>>
    /\ LET s == session[c]
           rd == ReadAll(LimitReader(r, ReadCeiling))
           started == [NoCall EXCEPT !.op = "Data", !.r = r, !.pre = s]
           read == [started EXCEPT !.nread = rd.nread, !.touched = TRUE]
       IN  IF NoRecipients(s) THEN
               /\ emailError' = IncLabel(emailError, "no valid recipients")
               /\ call' = [call EXCEPT ![c] =
                      [started EXCEPT !.ret = ErrNoRecipients, !.incs = Tally(ZeroIncs)]]
               /\ UNCHANGED <<session, pc, inflight>>
           ELSE IF rd.err THEN
               /\ emailError' = IncLabel(emailError, "read error")
               /\ call' = [call EXCEPT ![c] =
                      [read EXCEPT !.ret = ErrRead, !.incs = Tally(ZeroIncs)]]
               /\ UNCHANGED <<session, pc, inflight>>
           ELSE IF SizeExceeded(rd.data) THEN
               /\ session' = [session EXCEPT ![c] = StoreData(s, rd.data)]
               /\ emailError' = IncLabel(emailError, "minimum message size exceed")
               /\ call' = [call EXCEPT ![c] =
                      [read EXCEPT !.ret = ErrSize, !.incs = Tally(ZeroIncs)]]
               /\ UNCHANGED <<pc, inflight>>
           ELSE
               /\ session' = [session EXCEPT ![c] = StoreData(s, rd.data)]
               /\ inflight' = [inflight EXCEPT ![c] =
                      <<SendRawEmailInput(backend, session'[c])>>]
               /\ pc' = [pc EXCEPT ![c] = "send"]
               /\ call' = [call EXCEPT ![c] = [read EXCEPT !.sends = 1]]
               /\ UNCHANGED emailError

\* Session.Data, from its entry to its return or to the SendRawEmail call.
Data(c, r) ==
    /\ Alive
    /\ pc[c] = "idle"
    /\ Started < MaxData
    /\ UNCHANGED <<proc, okReturns, backend, emailSent, sesError, mailLog, rcptLog>>
    /\ LET s == session[c]
           rd == ReadAll(LimitReader(r, ReadCeiling))
           started == [NoCall EXCEPT !.op = "Data", !.r = r, !.pre = s]
           read == [started EXCEPT !.nread = rd.nread, !.touched = TRUE]
       IN  IF NoRecipients(s) THEN
               /\ emailError' = IncLabel(emailError, "no valid recipients")
               /\ call' = [call EXCEPT ![c] =
                      [started EXCEPT !.ret = ErrNoRecipients, !.incs = Tally(ZeroIncs)]]
               /\ UNCHANGED <<session, pc, inflight>>
           ELSE IF rd.err THEN
               /\ emailError' = IncLabel(emailError, "read error")
               /\ call' = [call EXCEPT ![c] =
                      [read EXCEPT !.ret = ErrRead, !.incs = Tally(ZeroIncs)]]
               /\ UNCHANGED <<session, pc, inflight>>
           ELSE IF SizeExceeded(rd.data) THEN
               /\ emailError' = IncLabel(emailError, "minimum message size exceed")
               /\ call' = [call EXCEPT ![c] =
                      [read EXCEPT !.ret = ErrSize, !.incs = Tally(ZeroIncs)]]
               /\ UNCHANGED <<session, pc, inflight>>
           ELSE
               /\ session' = [session EXCEPT ![c] = StoreData(s, rd.data)]
               /\ inflight' = [inflight EXCEPT ![c] =
                      <<SendRawEmailInput(backend, session'[c])>>]
               /\ pc' = [pc EXCEPT ![c] = "send"]
               /\ call' = [call EXCEPT ![c] = [read EXCEPT !.sends = 1]]
               /\ UNCHANGED emailError

\* An increment that is not atomic: it writes 1 over a value read as 0.
IncStale(n) == 1

\* emailSent.Inc() / sesError.Inc()
Inc(n) == n + 1

\* The return of SendRawEmail with a failed call repeated once.
DataSendRetries(c, err) ==
    /\ Alive
    /\ pc[c] = "send"
    /\ UNCHANGED <<proc, backend, session, sesError, mailLog, rcptLog>>
    /\ IF err # "" /\ call[c].sends = 1 THEN
           /\ UNCHANGED <<inflight, pc, emailSent, emailError, okReturns>>
           /\ call' = [call EXCEPT ![c].sends = 2]
       ELSE IF err # "" THEN
           /\ inflight' = [inflight EXCEPT ![c] = <<>>]
           /\ emailError' = IncLabel(emailError, "ses error")
           /\ pc' = [pc EXCEPT ![c] = "sesErr"]
           /\ UNCHANGED <<emailSent, okReturns>>
           /\ call' = [call EXCEPT ![c].sendErr = err, ![c].incs = Tally(call[c].incs)]
       ELSE
           /\ inflight' = [inflight EXCEPT ![c] = <<>>]
           /\ emailSent' = Inc(emailSent)
           /\ pc' = [pc EXCEPT ![c] = "idle"]
           /\ UNCHANGED emailError
           /\ okReturns' = [okReturns EXCEPT ![c] = @ + 1]
           /\ call' = [call EXCEPT ![c].ret = NoError, ![c].incs = Tally(call[c].incs)]

\* Session.Data, the return of SendRawEmail: err is "" for a nil error.
DataSendReturns(c, err) ==
    /\ Alive
    /\ pc[c] = "send"
    /\ inflight' = [inflight EXCEPT ![c] = <<>>]
    /\ UNCHANGED <<proc, backend, session, sesError, mailLog, rcptLog>>
    /\ IF err # "" THEN
           /\ emailError' = IncLabel(emailError, "ses error")
           /\ pc' = [pc EXCEPT ![c] = "sesErr"]
           /\ UNCHANGED <<emailSent, okReturns>>
           /\ call' = [call EXCEPT ![c].sendErr = err, ![c].incs = Tally(call[c].incs)]
       ELSE
           /\ emailSent' = Inc(emailSent)
           /\ pc' = [pc EXCEPT ![c] = "idle"]
           /\ UNCHANGED emailError
           /\ okReturns' = [okReturns EXCEPT ![c] = @ + 1]
           /\ call' = [call EXCEPT ![c].ret = NoError, ![c].incs = Tally(call[c].incs)]

\* The error path returning without sesError.Inc().
DataSesErrorUncounted(c) ==
    /\ Alive
    /\ pc[c] = "sesErr"
    /\ pc' = [pc EXCEPT ![c] = "idle"]
    /\ UNCHANGED <<proc, okReturns, backend, session, inflight, emailSent, emailError,
                   sesError, mailLog, rcptLog>>
    /\ call' = [call EXCEPT ![c].ret = ErrSes]

\* Session.Data, the rest of the error path: sesError.Inc() and the return.
DataSesError(c) ==
    /\ Alive
    /\ pc[c] = "sesErr"
    /\ sesError' = Inc(sesError)
    /\ pc' = [pc EXCEPT ![c] = "idle"]
    /\ UNCHANGED <<proc, okReturns, backend, session, inflight, emailSent, emailError, mailLog, rcptLog>>
    /\ call' = [call EXCEPT ![c].ret = ErrSes, ![c].incs = Tally(call[c].incs)]

\* The connection of the sequential runs.
Solo == {"c1"}

\* One connection, driven by its client with every input.
Next ==
    \/ \E c \in Solo : NewSession(c)
    \/ \E c \in Solo, from \in Addrs : Mail(c, from)
    \/ \E c \in Solo, to \in Addrs : Rcpt(c, to)
    \/ \E c \in Solo, r \in Readers : Data(c, r)
    \/ \E c \in Solo, err \in SesErrs \cup {""} : DataSendReturns(c, err)
    \/ \E c \in Solo : DataSesError(c)
    \/ \E c \in Solo : Reset(c)

Spec == Init /\ [][Next]_vars

\* ------------------------------------------------------------------ main

\* The Backend before main has built it.
NoBackend == [configSetName |-> NilStr]

\* log.Fatalf: the process exits with status 1.
Fatal(p) == [p EXCEPT !.pc = "exited", !.exit = 1]

\* main with -version: prints the version and returns.
MainVersion ==
    /\ Alive
    /\ proc.pc = "start"
    /\ proc.flags.version
    /\ proc' = [proc EXCEPT !.pc = "exited", !.exit = 0]
    /\ UNCHANGED <<backend, session, pc, inflight, emailSent, emailError, sesError,
                   call, mailLog, rcptLog, okReturns>>

\* main: makeSesClient, fatal when it returns an error.
MainMakeSesClient(ok) ==
    /\ Alive
    /\ proc.pc = "start"
    /\ ~proc.flags.version
    /\ proc' = IF ok THEN [proc EXCEPT !.pc = "validate", !.creds = "ok"]
               ELSE Fatal([proc EXCEPT !.creds = "failed"])
    /\ UNCHANGED <<backend, session, pc, inflight, emailSent, emailError, sesError,
                   call, mailLog, rcptLog, okReturns>>

\* The configuration-set check with its failure only logged.
MainValidateLogged(ok) ==
    /\ Alive
    /\ proc.pc = "validate"
    /\ proc.flags.configSet = "" => ok
    /\ proc' = IF proc.flags.configSet = "" THEN [proc EXCEPT !.pc = "serve"]
               ELSE [proc EXCEPT !.pc = "serve", !.check = IF ok THEN "ok" ELSE "failed"]
    /\ UNCHANGED <<backend, session, pc, inflight, emailSent, emailError, sesError,
                   call, mailLog, rcptLog, okReturns>>

\* main: validateConfigurationSet when a label was given, fatal when it
\* returns an error; nothing when no label was given (ok is then TRUE).
MainValidate(ok) ==
    /\ Alive
    /\ proc.pc = "validate"
    /\ proc.flags.configSet = "" => ok
    /\ proc' = IF proc.flags.configSet = "" THEN [proc EXCEPT !.pc = "serve"]
               ELSE IF ok THEN [proc EXCEPT !.pc = "serve", !.check = "ok"]
               ELSE Fatal([proc EXCEPT !.check = "failed"])
    /\ UNCHANGED <<backend, session, pc, inflight, emailSent, emailError, sesError,
                   call, mailLog, rcptLog, okReturns>>

\* main: the listen address (fatal on the usage error), the Backend, the
\* server and the goroutine that will call ListenAndServe; main then waits
\* in its select.
MainServe ==
    /\ Alive
    /\ proc.pc = "serve"
    /\ IF proc.flags.usage THEN
           /\ proc' = Fatal(proc)
           /\ UNCHANGED backend
       ELSE
           /\ proc' = [proc EXCEPT !.pc = "select", !.listener = "starting"]
           /\ backend' = [configSetName |-> ConfigSetPtr(proc.flags.configSet)]
    /\ UNCHANGED <<session, pc, inflight, emailSent, emailError, sesError,
                   call, mailLog, rcptLog, okReturns>>

\* The goroutine's s.ListenAndServe: the listener opens, or the call fails
\* and the error is logged.
ListenAndServe(ok) ==
    /\ Alive
    /\ proc.listener = "starting"
    /\ proc' = [proc EXCEPT !.listener = IF ok THEN "open" ELSE "failed"]
    /\ UNCHANGED <<backend, session, pc, inflight, emailSent, emailError, sesError,
                   call, mailLog, rcptLog, okReturns>>

\* SIGTERM or SIGINT arrives: the context of signal.NotifyContext is done.
Signal ==
    /\ Alive
    /\ ~proc.signalled
    /\ proc' = [proc EXCEPT !.signalled = TRUE]
    /\ UNCHANGED <<backend, session, pc, inflight, emailSent, emailError, sesError,
                   call, mailLog, rcptLog, okReturns>>

\* The shutdown put off until no Data call is in progress.
MainShutdownDrained ==
    /\ Alive
    /\ proc.pc = "select"
    /\ proc.signalled
    /\ \A c \in Conns : pc[c] \in {"closed", "idle"}
    /\ proc' = [proc EXCEPT !.pc = "exited", !.exit = 0,
                            !.listener = IF @ = "open" THEN "closed" ELSE @]
    /\ UNCHANGED <<backend, session, pc, inflight, emailSent, emailError, sesError,
                   call, mailLog, rcptLog, okReturns>>

\* main's select on ctx.Done(): s.Close() and os.Exit(0).
MainShutdown ==
    /\ Alive
    /\ proc.pc = "select"
    /\ proc.signalled
    /\ proc' = [proc EXCEPT !.pc = "exited", !.exit = 0,
                            !.listener = IF @ = "open" THEN "closed" ELSE @]
    /\ UNCHANGED <<backend, session, pc, inflight, emailSent, emailError, sesError,
                   call, mailLog, rcptLog, okReturns>>

\* The address the client of connection c uses, and the bodies and SES
\* outcomes of the runs of the whole process.
AddrOf(c) == IF c = "c1" THEN "a@example.com" ELSE "b@example.com"

ProcReaders == {r \in Readers : r.len = SesSizeLimit /\ r.fill = "x" /\ r.end # "ErrWith"}

ProcSesErrs == {"", "Throttling"}

\* main from its entry, before any traffic.
InitProc ==
    /\ proc \in {Started0(fl) : fl \in Flags}
    /\ backend = NoBackend
    /\ NoTraffic

\* The whole process: main, the signal, and two connections in any
\* interleaving, each client using its own address.
NextProc ==
    \/ MainVersion
    \/ \E ok \in BOOLEAN : MainMakeSesClient(ok)
    \/ \E ok \in BOOLEAN : MainValidate(ok)
    \/ MainServe
    \/ \E ok \in BOOLEAN : ListenAndServe(ok)
    \/ Signal
    \/ MainShutdown
    \/ \E c \in Conns : NewSession(c)
    \/ \E c \in Conns : Mail(c, AddrOf(c))
    \/ \E c \in Conns : Rcpt(c, AddrOf(c))
    \/ \E c \in Conns, r \in ProcReaders : Data(c, r)
    \/ \E c \in Conns, err \in ProcSesErrs : DataSendReturns(c, err)
    \/ \E c \in Conns : DataSesError(c)
    \/ \E c \in Conns : Reset(c)

SpecProc == InitProc /\ [][NextProc]_vars

\* The whole process with main making progress: each step of main is taken
\* once it can be (the AWS calls of startup return, the select wakes up on
\* the signal).  Nothing is assumed of the clients or of SendRawEmail.
FairProc ==
    /\ SpecProc
    /\ WF_vars(MainVersion)
    /\ WF_vars(\E ok \in BOOLEAN : MainMakeSesClient(ok))
    /\ WF_vars(\E ok \in BOOLEAN : MainValidate(ok))
    /\ WF_vars(MainServe)
    /\ WF_vars(MainShutdown)

\* ---------------------------------------------------------------- claims

\* Connection c's last callback was Data and it has returned.
Returned(c) == call[c].op = "Data" /\ pc[c] = "idle"

\* The content of reader r, as a byte slice.
Content(r) == Bytes(r.len, r.fill)

\* C1: a Data call entered with an empty recipient list returns 554 / 5.5.1
\* at once: SendRawEmail is not invoked and the body reader is not read
\* from, whatever it would have delivered.
C1_NoRecipientsRejected ==
    \A c \in Conns :
        (call[c].op = "Data" /\ call[c].pre.recipients = <<>>) =>
            /\ pc[c] = "idle"
            /\ call[c].ret.Code = 554
            /\ call[c].ret.EnhancedCode = <<5, 5, 1>>
            /\ call[c].sends = 0
            /\ inflight[c] = <<>>
            /\ call[c].nread = 0
            /\ ~call[c].touched

\* A Data call without recipients has returned; its reader held an oversized
\* body and would have failed.
C1_Witness ==
    \E c \in Conns :
        /\ Returned(c)
        /\ call[c].pre.recipients = <<>>
        /\ call[c].r.len > SesSizeLimit
        /\ call[c].r.end # "EOF"

\* C2: with a recipient and a reader that does not fail, a body of exactly
\* SesSizeLimit bytes is handed to SendRawEmail whole and Data returns nil
\* when SendRawEmail does; a longer body is rejected with 554 / 5.5.1, counted
\* under the size label, and SendRawEmail is not invoked.
C2_SizeBoundary ==
    \A c \in Conns :
        (call[c].op = "Data" /\ call[c].pre.recipients # <<>> /\ call[c].r.end = "EOF") =>
            /\ call[c].r.len = SesSizeLimit =>
                   /\ call[c].sends = 1
                   /\ pc[c] = "send" =>
                          /\ Len(inflight[c]) = 1
                          /\ inflight[c][1].RawMessage = Content(call[c].r)
                   /\ (Returned(c) /\ call[c].sendErr = "") => call[c].ret = NoError
            /\ call[c].r.len > SesSizeLimit =>
                   /\ pc[c] = "idle"
                   /\ call[c].ret.Code = 554
                   /\ call[c].ret.EnhancedCode = <<5, 5, 1>>
                   /\ call[c].incs["minimum message size exceed"] = 1
                   /\ call[c].sends = 0
                   /\ inflight[c] = <<>>

\* A body of exactly SesSizeLimit bytes was sent and Data returned nil.
C2_Witness ==
    \E c \in Conns :
        /\ Returned(c)
        /\ call[c].r.len = SesSizeLimit
        /\ call[c].r.end = "EOF"
        /\ call[c].sends = 1
        /\ call[c].ret = NoError

\* C3: whenever SendRawEmail is in progress for a session, the session's
\* recipient list is non-empty and its data is a non-nil slice holding the
\* bytes read from this call's reader, at most SesSizeLimit of them.
C3_SendOnlyComplete ==
    \A c \in Conns :
        pc[c] = "send" =>
            /\ call[c].op = "Data"
            /\ session[c].recipients # <<>>
            /\ ~session[c].data.nil
            /\ session[c].data = Content(call[c].r)
            /\ session[c].data.len <= SesSizeLimit
            /\ Len(inflight[c]) = 1
            /\ inflight[c][1].Destinations # <<>>
            /\ ~inflight[c][1].RawMessage.nil

\* SendRawEmail is in progress for a session with two recipients and a body
\* of SesSizeLimit bytes, after an earlier Data call on the session.
C3_Witness ==
    \E c \in Conns :
        /\ pc[c] = "send"
        /\ Len(session[c].recipients) = 2
        /\ session[c].data.len = SesSizeLimit
        /\ ~call[c].pre.data.nil

\* Reader r delivers its whole body without an error, at most SesSizeLimit
\* bytes of it.
Acceptable(r) == r.end = "EOF" /\ r.len <= SesSizeLimit

\* C4: a Data call that passes the recipient check, the read and the size
\* check invokes SendRawEmail exactly once, whether or not the invocation
\* fails: the call is not repeated, and no other Data call invokes it.
C4_SendExactlyOnce ==
    \A c \in Conns :
        call[c].op = "Data" =>
            /\ (call[c].pre.recipients # <<>> /\ Acceptable(call[c].r)) => call[c].sends = 1
            /\ (call[c].pre.recipients = <<>> \/ ~Acceptable(call[c].r)) => call[c].sends = 0
            /\ pc[c] \in {"sesErr", "idle"} => inflight[c] = <<>>

\* SendRawEmail has failed for a Data call and the call has returned.
C4_Witness ==
    \E c \in Conns :
        /\ Returned(c)
        /\ call[c].sendErr # ""
        /\ call[c].sends = 1

\* The counters a Data call must increment exactly one of.
OutcomeCounters == Labels \cup {"emailSent"}

\* The failure label for the error Data returned.
CauseOf(ret) ==
    IF ret.Message = "Error: no valid recipients" THEN "no valid recipients"
    ELSE IF ret.Message = "Temporary server error reading message" THEN "read error"
    ELSE IF ret.Message = "Error: maximum message size exceeded" THEN "minimum message size exceed"
    ELSE "ses error"

\* C5: a Data call that has returned has incremented exactly one of emailSent
\* and the four emailError labels, by one: emailSent if and only if it
\* returned nil, otherwise the label of the error it returned.
C5_ExactlyOneOutcome ==
    \A c \in Conns :
        Returned(c) =>
            /\ \E k \in OutcomeCounters :
                   /\ call[c].incs[k] = 1
                   /\ \A j \in OutcomeCounters \ {k} : call[c].incs[j] = 0
            /\ call[c].incs["emailSent"] = 1 <=> call[c].ret = NoError
            /\ call[c].ret # NoError => call[c].incs[CauseOf(call[c].ret)] = 1

\* Over the run one Data call returned nil and one returned the read error.
C5_Witness ==
    /\ \E c \in Conns : Returned(c) /\ call[c].ret = ErrRead
    /\ emailSent = 1
    /\ emailError["read error"] = 1

\* C6: when SendRawEmail returns an error, of whatever kind, the Data call
\* increments the "ses error" label and sesError by one each, leaves emailSent
\* alone and returns 451 / 4.5.1.
C6_SendFailure ==
    \A c \in Conns :
        (Returned(c) /\ call[c].sendErr # "") =>
            /\ call[c].incs["ses error"] = 1
            /\ call[c].incs["sesError"] = 1
            /\ call[c].incs["emailSent"] = 0
            /\ call[c].ret.Code = 451
            /\ call[c].ret.EnhancedCode = <<4, 5, 1>>

\* A Data call has returned after SendRawEmail was throttled.
C6_Witness ==
    \E c \in Conns :
        /\ Returned(c)
        /\ call[c].sendErr = "Throttling"
        /\ sesError = 1

\* C7: with a recipient, a reader that fails before SesSizeLimit+1 bytes were
\* read makes Data return 451 / 4.5.1 with only the "read error" label
\* incremented and without invoking SendRawEmail, however many bytes came
\* before the failure.
C7_ReadFailure ==
    \A c \in Conns :
        (/\ call[c].op = "Data"
         /\ call[c].pre.recipients # <<>>
         /\ call[c].r.end # "EOF"
         /\ call[c].r.len < SesSizeLimit + 1) =>
            /\ pc[c] = "idle"
            /\ call[c].ret.Code = 451
            /\ call[c].ret.EnhancedCode = <<4, 5, 1>>
            /\ call[c].incs = [ZeroIncs EXCEPT !["read error"] = 1]
            /\ call[c].sends = 0
            /\ inflight[c] = <<>>

\* A reader failed after SesSizeLimit bytes and Data has returned.
C7_Witness ==
    \E c \in Conns :
        /\ Returned(c)
        /\ call[c].pre.recipients # <<>>
        /\ call[c].r.end = "ErrAfter"
        /\ call[c].r.len = SesSizeLimit
        /\ call[c].nread = SesSizeLimit

\* C8: after Reset the session's from, recipients and data are those of a
\* session NewSession has just created, whatever Mail, Rcpt and Data calls
\* came before; Reset returns no error and does not invoke SendRawEmail.
C8_ResetIsFresh ==
    \A c \in Conns :
        call[c].op = "Reset" =>
            /\ session[c].from = ""
            /\ session[c].recipients = <<>>
            /\ session[c].data = NilBytes
            /\ session[c] = FreshSession
            /\ mailLog[c] = ""
            /\ rcptLog[c] = <<>>
            /\ call[c].ret = NoError
            /\ call[c].sends = 0
            /\ inflight[c] = <<>>
            /\ pc[c] = "idle"

\* Reset has run after a Data call that sent and one that failed in SES.
C8_Witness ==
    \E c \in Solo :
        /\ call[c].op = "Reset"
        /\ emailSent = 1
        /\ sesError = 1

\* C9 as stated: when a Data call that invoked SendRawEmail has returned, the
\* session's from, recipients and data are empty.
C9_ClearedAfterSend ==
    \A c \in Conns :
        (Returned(c) /\ call[c].sends = 1) =>
            /\ session[c].from = ""
            /\ session[c].recipients = <<>>
            /\ session[c].data = NilBytes

\* C9 as amended: when a Data call that invoked SendRawEmail has returned,
\* the session's from and recipients are as they were when it was called and
\* its data is the body just read; they are emptied only by Reset.
C9_KeptAfterSend ==
    \A c \in Conns :
        (Returned(c) /\ call[c].sends = 1) =>
            /\ session[c].from = call[c].pre.from
            /\ session[c].recipients = call[c].pre.recipients
            /\ session[c].recipients # <<>>
            /\ session[c].data = Content(call[c].r)
            /\ session[c].from = mailLog[c]
            /\ session[c].recipients = rcptLog[c]

\* A Data call that sent has returned on a session that held another body.
C9_Witness ==
    \E c \in Conns :
        /\ Returned(c)
        /\ call[c].sends = 1
        /\ call[c].ret = NoError
        /\ session[c].from # ""
        /\ ~call[c].pre.data.nil
        /\ call[c].pre.data # session[c].data

\* C10: the request of every SendRawEmail call has as Source the sender of
\* the last Mail, as Destinations the addresses of the Rcpt calls since
\* NewSession or the last Reset, in their order and with repetitions, and as
\* RawMessage the bytes read from this Data call's reader.
C10_RequestContents ==
    \A c \in Conns :
        pc[c] = "send" =>
            /\ Len(inflight[c]) = 1
            /\ inflight[c][1].Source = mailLog[c]
            /\ inflight[c][1].Destinations = rcptLog[c]
            /\ inflight[c][1].RawMessage = Content(call[c].r)

\* A request with two different destinations and a sender is in progress.
C10_Witness ==
    \E c \in Conns :
        /\ pc[c] = "send"
        /\ Len(inflight[c][1].Destinations) = 2
        /\ inflight[c][1].Destinations[1] # inflight[c][1].Destinations[2]
        /\ inflight[c][1].Source # ""
        /\ inflight[c][1].RawMessage.len = SesSizeLimit

\* main has built the Backend.
Built == proc.listener # "none"

\* C11: once main has built the Backend its configSetName never changes; it
\* is a pointer to the label when a non-empty label was given and nil when
\* none was, never a pointer to an empty string, and every SendRawEmail
\* request of every connection carries that value.
C11_ConfigSetFixed ==
    /\ [](Built =>
            /\ proc.flags.configSet # "" =>
                   backend.configSetName = [nil |-> FALSE, val |-> proc.flags.configSet]
            /\ proc.flags.configSet = "" => backend.configSetName = NilStr
            /\ ~(~backend.configSetName.nil /\ backend.configSetName.val = "")
            /\ \A c \in Conns :
                   pc[c] = "send" =>
                       inflight[c][1].ConfigurationSetName = backend.configSetName)
    /\ [][Built => backend' = backend]_vars

\* Both connections have a request in progress in a process started without
\* a label.
C11_Witness ==
    /\ proc.flags.configSet = ""
    /\ \A c \in Conns :
           /\ pc[c] = "send"
           /\ inflight[c][1].ConfigurationSetName.nil

\* C13: the listener is started only after credential resolution has
\* succeeded and, when a label was given, after its check has succeeded, and
\* the check only after credential resolution.  When either fails the
\* process has exited with a non-zero status, the listener was never started
\* and no session was ever created.  Without a label the check is not made.
C13_StartupOrder ==
    /\ proc.listener # "none" =>
           /\ proc.creds = "ok"
           /\ proc.flags.configSet # "" => proc.check = "ok"
    /\ proc.check # "none" => proc.creds = "ok"
    /\ (proc.creds = "failed" \/ proc.check = "failed") =>
           /\ proc.exit # Running
           /\ proc.exit # 0
           /\ proc.listener = "none"
           /\ \A c \in Conns : pc[c] = "closed" /\ call[c] = NoCall
    /\ proc.flags.configSet = "" => proc.check = "none"
    /\ (\E c \in Conns : pc[c] # "closed") => proc.listener \in {"open", "closed"}

\* The check of a label has failed and the process has exited.
C13_Witness ==
    /\ proc.flags.configSet # ""
    /\ proc.check = "failed"
    /\ proc.exit = 1

\* C14 as stated, for the runs that end: a process that received a
\* termination signal and has exited has exited with status 0.
C14_SignalExitsZero ==
    (proc.signalled /\ ~Alive) => proc.exit = 0

\* C14 as amended: a process that receives a termination signal exits,
\* whatever Data calls are in progress.  It exits with status 0 and with no
\* listener left open, unless a fatal startup error (credentials, label
\* check, usage) comes first: then the status is non-zero and the listener
\* was never started.
C14_SignalShutsDown ==
    /\ proc.signalled ~> ~Alive
    /\ []((proc.signalled /\ ~Alive) =>
            /\ proc.listener # "open"
            /\ proc.exit # 0 =>
                   /\ proc.creds = "failed" \/ proc.check = "failed" \/ proc.flags.usage
                   /\ proc.listener = "none")
    /\ []((proc.signalled /\ proc.pc = "exited" /\ proc.creds = "ok"
             /\ proc.check # "failed" /\ ~proc.flags.usage) => proc.exit = 0)

\* The process has shut down on a signal, with status 0 and the listener
\* closed, while a SendRawEmail call was in progress.
C14_Witness ==
    /\ proc.signalled
    /\ proc.exit = 0
    /\ proc.listener = "closed"
    /\ \E c \in Conns : pc[c] = "send"

\* The sum of f over the connections.
Total(f) == f["c1"] + f["c2"]

\* C12: with the connections interleaved in any way, the request of a
\* connection holds only the sender and the recipients declared on that
\* connection, and when no Data call is in progress emailSent is the number
\* of Data calls that returned nil.
C12_ConnectionsIsolated ==
    /\ \A c \in Conns :
           pc[c] = "send" =>
               /\ inflight[c][1].Source \in {"", AddrOf(c)}
               /\ inflight[c][1].Source = mailLog[c]
               /\ inflight[c][1].Destinations = rcptLog[c]
               /\ \A i \in 1 .. Len(inflight[c][1].Destinations) :
                      inflight[c][1].Destinations[i] = AddrOf(c)
    /\ (\A c \in Conns : pc[c] \in {"closed", "idle"}) => emailSent = Total(okReturns)

\* Each of the two connections has completed one successful transaction.
C12_Witness ==
    /\ \A c \in Conns : Returned(c) /\ call[c].ret = NoError /\ okReturns[c] = 1
    /\ emailSent = 2

\* C18: no counter ever decreases; sesError never exceeds the "ses error"
\* label of emailError and equals it whenever no Data call is between the
\* two increments.
C18_CountersOrdered ==
    /\ [](/\ sesError <= emailError["ses error"]
          /\ (\A c \in Conns : pc[c] # "sesErr") => sesError = emailError["ses error"])
    /\ [][/\ emailSent' >= emailSent
          /\ sesError' >= sesError
          /\ \A l \in Labels : emailError'[l] >= emailError[l]]_vars

\* One Data call has made both increments and another is between them.
C18_Witness ==
    /\ sesError = 1
    /\ emailError["ses error"] = 2
    /\ \E c \in Conns : pc[c] = "sesErr"

\* C15 as stated: a recipient is accepted only once a sender was declared
\* since NewSession or the last Reset, and SendRawEmail is invoked only for
\* a transaction with a declared sender and recipients.
C15_SenderBeforeSend ==
    \A c \in Conns :
        /\ rcptLog[c] # <<>> => mailLog[c] # ""
        /\ pc[c] = "send" => (mailLog[c] # "" /\ rcptLog[c] # <<>>)

\* C15 as amended: the callbacks order a transaction by its recipients
\* alone.  Data invokes SendRawEmail only when a recipient was declared since
\* NewSession or the last Reset and is refused with 554 otherwise; Rcpt is
\* accepted in every state, also when no sender was declared, and the Source
\* of a request is the declared sender, or the empty string when there is
\* none.
C15_RecipientsBeforeSend ==
    \A c \in Conns :
        /\ pc[c] = "send" =>
               /\ rcptLog[c] # <<>>
               /\ inflight[c][1].Source = mailLog[c]
        /\ (call[c].op = "Data" /\ rcptLog[c] = <<>>) =>
               /\ pc[c] = "idle"
               /\ call[c].ret.Code = 554
        /\ call[c].op = "Rcpt" =>
               /\ call[c].ret = NoError
               /\ rcptLog[c] # <<>>
               /\ session[c].recipients = rcptLog[c]

\* A request without a sender is in progress.
C15_Witness ==
    \E c \in Conns :
        /\ pc[c] = "send"
        /\ mailLog[c] = ""
        /\ inflight[c][1].Source = ""
        /\ inflight[c][1].Destinations # <<>>

\* C16 as stated: once Mail has recorded a sender, no step other than Reset
\* changes it.
C16_SenderSetOnce ==
    [][\A c \in Conns :
           (mailLog[c] # "" /\ call'[c].op # "Reset") =>
               session'[c].from = session[c].from]_vars

\* C16 as amended: Rcpt and Data never change the sender; every Mail records
\* its argument as the sender, also when one was recorded before, and leaves
\* recipients and body as they were.
C16_SenderSetByMail ==
    [][\A c \in Conns :
           /\ call'[c].op \in {"Rcpt", "Data"} => session'[c].from = session[c].from
           /\ call'[c].op = "Mail" =>
                  /\ session'[c].from = mailLog'[c]
                  /\ session'[c].recipients = session[c].recipients
                  /\ session'[c].data = session[c].data]_vars

\* Mail has just run on a session that holds recipients and a body.
C16_Witness ==
    \E c \in Conns :
        /\ call[c].op = "Mail"
        /\ session[c].from # ""
        /\ session[c].recipients # <<>>
        /\ ~session[c].data.nil

\* The last callback of connection c was a Data call refused before the
\* send.
Refused(c) ==
    /\ Returned(c)
    /\ call[c].ret.Message \in
           {"Error: no valid recipients", "Temporary server error reading message",
            "Error: maximum message size exceeded"}

\* C17: a Data call refused for its recipients, its read or its size leaves
\* from, recipients and data as they were.  A Rcpt that follows is accepted
\* and keeps the sender, and a Data that follows and reaches SendRawEmail
\* sends from the sender and to the recipients the session had, without
\* another Mail.
C17_RefusalKeepsSession ==
    /\ [](\A c \in Conns :
              Refused(c) =>
                  /\ session[c] = call[c].pre
                  /\ session[c].from = mailLog[c]
                  /\ session[c].recipients = rcptLog[c]
                  /\ call[c].sends = 0)
    /\ [][\A c \in Conns :
              /\ (Refused(c) /\ call'[c].op = "Rcpt") =>
                     /\ call'[c].ret = NoError
                     /\ session'[c].from = call[c].pre.from
                     /\ Len(session'[c].recipients) = Len(call[c].pre.recipients) + 1
              /\ (Refused(c) /\ pc'[c] = "send") =>
                     /\ inflight'[c][1].Source = call[c].pre.from
                     /\ inflight'[c][1].Destinations = call[c].pre.recipients]_vars

\* A Data call was refused for its size on a session that held a sender,
\* recipients and the body of an earlier call.
C17_Witness ==
    \E c \in Conns :
        /\ Refused(c)
        /\ call[c].ret.Message = "Error: maximum message size exceeded"
        /\ call[c].pre.from # ""
        /\ call[c].pre.recipients # <<>>
        /\ ~call[c].pre.data.nil

====
